---------------------------- MODULE Spec2Model ----------------------------
(***************************************************************************)
(* Model of modules/spiro/generator.py (SpirographGenerator).              *)
(*                                                                         *)
(* Number representation.  Python floats are modelled in fixed point:      *)
(*   - angles are integers in milliradians (PI = 3142);                    *)
(*   - dimensionless values (cos, sin, scale, center_offset, normalized    *)
(*     rho) are integers in thousandths (UNIT = 1.0);                      *)
(*   - the radii R, r, d and the frequencies a, b are integers in ticks,   *)
(*     TicksPerMilli ticks to 0.001, so that int(v * 1000) loses the       *)
(*     remainder of a value that is not a multiple of 0.001;               *)
(*   - Cartesian x, y and raw rho of the trochoids are in ticks * UNIT.    *)
(* Every division of the code is a truncating fixed-point division here.   *)
(***************************************************************************)
EXTENDS Integers, Sequences, FiniteSets, TLC

\* ------------------------------------------------------------------ bounds
MaxPoints == 5          \* largest num_points a caller passes
TicksPerMilli == 2      \* input resolution: ticks per 0.001
MaxCustomPoints == 3    \* largest num_points passed to the custom family

\* --------------------------------------------------------------- constants
RATIONALIZE == 1000     \* the factor of int(R * 1000)
UNIT == 1000            \* fixed-point 1.0
PI == 3142              \* math.pi in milliradians
MAX_RHO == 1000         \* max_rho=1.0 of _normalize_rho
SQRT2 == 1414           \* math.sqrt(2) in thousandths

TwoPi == 2 * PI
HalfPi == PI \div 2

\* ------------------------------------------------------------ float helpers
Abs(v) == IF v < 0 THEN -v ELSE v
Sgn(v) == IF v < 0 THEN -1 ELSE IF v > 0 THEN 1 ELSE 0
Min(u, v) == IF u <= v THEN u ELSE v
Max(u, v) == IF u >= v THEN u ELSE v

\* float division u / v (v # 0), truncated toward zero
FDiv(u, v) == Sgn(u) * Sgn(v) * (Abs(u) \div Abs(v))

\* float floor division u // v (v > 0)
FloorDiv(u, v) == u \div v

\* int(value * 1000) of a value given in ticks: truncation toward zero
Int1000(v) == Sgn(v) * (Abs(v) \div TicksPerMilli)

\* round(value * 1000) of a value given in ticks (Python rounds half to even)
Round1000(v) ==
    LET q == Abs(v) \div TicksPerMilli
        m == Abs(v) % TicksPerMilli
    IN  Sgn(v) * (IF 2 * m < TicksPerMilli THEN q
                  ELSE IF 2 * m > TicksPerMilli THEN q + 1
                  ELSE IF q % 2 = 0 THEN q ELSE q + 1)

RECURSIVE GCD(_, _)
GCD(u, v) == IF v = 0 THEN Abs(u) ELSE GCD(v, u % Abs(v))

RECURSIVE SqrtSearch(_, _, _)
SqrtSearch(v, lo, hi) ==
    IF lo >= hi THEN lo
    ELSE LET mid == (lo + hi + 1) \div 2
         IN  IF mid * mid <= v THEN SqrtSearch(v, mid, hi)
             ELSE SqrtSearch(v, lo, mid - 1)

\* math.sqrt on a non-negative fixed-point square
Sqrt(v) == SqrtSearch(v, 0, 46340)

\* math.sin of an angle in milliradians, in thousandths
SinHalfTurn(h) ==
    LET p == h * (PI - h)
    IN  (16 * p) \div ((5 * PI * PI - 4 * p) \div UNIT)

Sin(angle) ==
    LET h == angle % TwoPi
    IN  IF h <= PI THEN SinHalfTurn(h) ELSE -SinHalfTurn(h - PI)

Cos(angle) == Sin(angle + HalfPi)

\* atan of mn/mx for 0 <= mn <= mx, mx > 0, in milliradians
AtanOctant(mn, mx) ==
    LET z == (UNIT * mn) \div mx
    IN  (z * (785 + (273 * (UNIT - z)) \div UNIT)) \div UNIT

\* math.atan2(y, x) in milliradians; atan2(0, 0) = 0
Atan2(y, x) ==
    IF x = 0 /\ y = 0 THEN 0
    ELSE LET ax == Abs(x)
             ay == Abs(y)
             oct == AtanOctant(Min(ax, ay), Max(ax, ay))
             q1 == IF ay > ax THEN HalfPi - oct ELSE oct
             up == IF x < 0 THEN PI - q1 ELSE q1
         IN  IF y < 0 THEN -up ELSE up


\* np.linspace(start, stop, num) for num >= 0: num evenly spaced values,
\* both endpoints included
linspace(start, stop, num) ==
    IF num = 1 THEN <<start>>
    ELSE [i \in 1..num |-> IF i = num THEN stop
                           ELSE start + FDiv((i - 1) * (stop - start), num - 1)]

\* _normalize_rho without the upper clamp
normalize_rho_unclamped_above(rho, max_rho) == Max(0, rho)

\* SpirographGenerator._normalize_rho
normalize_rho(rho, max_rho) == Max(0, Min(max_rho, rho))

\* (rho / max_possible_rho) * scale + center_offset, then _normalize_rho
rho_normalized(rho, max_possible_rho, scale, center_offset) ==
    normalize_rho(FDiv(FDiv(rho * UNIT, max_possible_rho) * scale, UNIT)
                  + center_offset, MAX_RHO)

\* the first loop stepping by half a turn
RECURSIVE UnwrapDown_half_turn(_, _)
UnwrapDown_half_turn(theta, prev) ==
    IF theta - prev > PI THEN UnwrapDown_half_turn(theta - PI, prev) ELSE theta

\* while theta - prev_theta > math.pi: theta -= 2 * math.pi
RECURSIVE UnwrapDown(_, _)
UnwrapDown(theta, prev) ==
    IF theta - prev > PI THEN UnwrapDown(theta - TwoPi, prev) ELSE theta

\* the second loop written as an if: one turn at most
UnwrapUp_once(theta, prev) ==
    IF theta - prev < -PI THEN theta + TwoPi ELSE theta

\* while theta - prev_theta < -math.pi: theta += 2 * math.pi
RECURSIVE UnwrapUp(_, _)
UnwrapUp(theta, prev) ==
    IF theta - prev < -PI THEN UnwrapUp(theta + TwoPi, prev) ELSE theta

\* the two unwrapping loops in sequence
Unwrap(theta, prev) == UnwrapUp(UnwrapDown(theta, prev), prev)

\* ------------------------------------------------------- period arithmetic
\* the lcm without the division by the gcd
LcmOf_product(A, B) == A * B

\* lcm = (int(u * 1000) * int(v * 1000)) // gcd, for gcd # 0
LcmOf(A, B) == (A * B) \div GCD(A, B)

\* num_rotations = lcm / (r * 1000), in thousandths, for r # 0
NumRotations(lcm, r) == FDiv(lcm * UNIT * TicksPerMilli, r)

\* t_max = 2 * math.pi * num_rotations
TrochoidTMax(num_rot) == FDiv(TwoPi * num_rot, UNIT)

\* period = 2 * math.pi * lcm / 1000
LissajousPeriod(lcm) == FDiv(TwoPi * lcm, RATIONALIZE)

\* t_max of generate_rose: 2 * math.pi * d // gcd or math.pi * d // gcd,
\* a float floor division, so a whole number of radians (gcd > 0)
RoseTMax(n, d) ==
    LET gcd == GCD(n, d)
    IN  IF d % 2 = 0 \/ n % 2 = 0
        THEN FloorDiv(TwoPi * d, gcd * UNIT) * UNIT
        ELSE FloorDiv(PI * d, gcd * UNIT) * UNIT

\* ------------------------------------------------------ parametric equations
\* (R - r) / r * t
HypoPhase(a, t) == FDiv((a.R - a.r) * t, a.r)

\* (R + r) / r * t
EpiPhase(a, t) == FDiv((a.R + a.r) * t, a.r)

HypoXY(a, t) ==
    <<(a.R - a.r) * Cos(t) + a.d * Cos(HypoPhase(a, t)),
      (a.R - a.r) * Sin(t) - a.d * Sin(HypoPhase(a, t))>>

EpiXY(a, t) ==
    <<(a.R + a.r) * Cos(t) - a.d * Cos(EpiPhase(a, t)),
      (a.R + a.r) * Sin(t) - a.d * Sin(EpiPhase(a, t))>>

\* a * t and b * t with a, b in ticks
FreqTimes(f, t) == FDiv(f * t, RATIONALIZE * TicksPerMilli)

LissajousXY(a, t) ==
    <<Sin(FreqTimes(a.a, t) + a.delta), Sin(FreqTimes(a.b, t))>>

\* rho_raw = abs(math.cos(k * t)) with k = n / d, d # 0
RoseRho(a, t) == Abs(Cos(FDiv(a.n * t, a.d)))

\* max_possible_rho of each Cartesian family (custom: max_r)
MaxPossibleRho(fam, a, maxr) ==
    CASE fam = "hypotrochoid" -> (a.R + a.d) * UNIT
      [] fam = "epitrochoid"  -> (a.R + a.r + a.d) * UNIT
      [] fam = "lissajous"    -> SQRT2
      [] OTHER                -> maxr

\* ------------------------------------------------------------------ state
Calls == {1, 2}         \* generation calls in flight on one generator

CartesianFamilies == {"hypotrochoid", "epitrochoid", "lissajous", "custom"}

VARIABLES
    pc,               \* per call: "idle", "first_pass", "auto_scale", "loop",
                      \*           "returned" or "raised"
    family,           \* per call: the generator entered
    args,             \* per call: the keyword arguments
    num_rotations,    \* per call: local num_rotations, in thousandths
    t_max,            \* per call: local t_max / period
    t_values,         \* per call: local t_values
    cartesian_coords, \* per call: local cartesian_coords (custom family)
    max_r,            \* per call: local max_r (custom family)
    prev_theta,       \* per call: local prev_theta
    raw_thetas,       \* per call: the math.atan2 result of every sample
    coordinates,      \* per call: local coordinates, the returned list
    error             \* per call: exception that ended the call

vars == <<pc, family, args, num_rotations, t_max, t_values, cartesian_coords,
          max_r, prev_theta, raw_thetas, coordinates, error>>

NoArgs == [num_points |-> 0]

Init ==
    /\ pc = [c \in Calls |-> "idle"]
    /\ family = [c \in Calls |-> "none"]
    /\ args = [c \in Calls |-> NoArgs]
    /\ num_rotations = [c \in Calls |-> 0]
    /\ t_max = [c \in Calls |-> 0]
    /\ t_values = [c \in Calls |-> <<>>]
    /\ cartesian_coords = [c \in Calls |-> <<>>]
    /\ max_r = [c \in Calls |-> UNIT]
    /\ prev_theta = [c \in Calls |-> 0]
    /\ raw_thetas = [c \in Calls |-> <<>>]
    /\ coordinates = [c \in Calls |-> <<>>]
    /\ error = [c \in Calls |-> "none"]

\* prev_theta = 0 at the start of a generation run
InitialPrevTheta == 0

\* prev_theta kept in one place shared by all calls
PrevThetaOf_shared(c) == prev_theta[1]

\* the prev_theta read by the unwrapping loops of call c
PrevThetaOf(c) == prev_theta[c]

\* a call ends in an exception: nothing is returned
Raise(c, fam, a, exc) ==
    /\ pc' = [pc EXCEPT ![c] = "raised"]
    /\ family' = [family EXCEPT ![c] = fam]
    /\ args' = [args EXCEPT ![c] = a]
    /\ error' = [error EXCEPT ![c] = exc]
    /\ coordinates' = [coordinates EXCEPT ![c] = <<>>]
    /\ raw_thetas' = [raw_thetas EXCEPT ![c] = <<>>]
    /\ UNCHANGED <<num_rotations, t_max, t_values, cartesian_coords, max_r,
                   prev_theta>>

\* the locals set before the sampling loop of a closed-form family
EnterLoop(c, fam, a, rot, tmax) ==
    /\ pc' = [pc EXCEPT ![c] = "loop"]
    /\ family' = [family EXCEPT ![c] = fam]
    /\ args' = [args EXCEPT ![c] = a]
    /\ num_rotations' = [num_rotations EXCEPT ![c] = rot]
    /\ t_max' = [t_max EXCEPT ![c] = tmax]
    /\ t_values' = [t_values EXCEPT ![c] = linspace(0, tmax, a.num_points)]
    /\ coordinates' = [coordinates EXCEPT ![c] = <<>>]
    /\ raw_thetas' = [raw_thetas EXCEPT ![c] = <<>>]
    /\ prev_theta' = [prev_theta EXCEPT ![c] = InitialPrevTheta]
    /\ UNCHANGED <<cartesian_coords, max_r, error>>

\* lines 101-110 and 162-171: period of a trochoid, then np.linspace
Trochoid(c, fam, a) ==
    LET A == Int1000(a.R)
        B == Int1000(a.r)
    IN     IF GCD(A, B) = 0 \/ a.r = 0
           THEN Raise(c, fam, a, "ZeroDivisionError")
           ELSE IF a.num_points < 0
           THEN Raise(c, fam, a, "ValueError")
           ELSE LET rot == NumRotations(LcmOf(A, B), a.r)
                IN  EnterLoop(c, fam, a, rot, TrochoidTMax(rot))

\* a call of generate_hypotrochoid with keyword arguments among callers_args
generate_hypotrochoid(c, callers_args) ==
    /\ pc[c] = "idle"
    /\ \E a \in callers_args : Trochoid(c, "hypotrochoid", a)

generate_epitrochoid(c, callers_args) ==
    /\ pc[c] = "idle"
    /\ \E a \in callers_args : Trochoid(c, "epitrochoid", a)

\* lines 272-279
generate_lissajous(c, callers_args) ==
    /\ pc[c] = "idle"
    /\ \E a \in callers_args :
       LET A == Int1000(a.a)
           B == Int1000(a.b)
       IN  IF GCD(A, B) = 0
           THEN Raise(c, "lissajous", a, "ZeroDivisionError")
           ELSE IF a.num_points < 0
           THEN Raise(c, "lissajous", a, "ValueError")
           ELSE EnterLoop(c, "lissajous", a, 0, LissajousPeriod(LcmOf(A, B)))

\* lines 222-230
generate_rose(c, callers_args) ==
    /\ pc[c] = "idle"
    /\ \E a \in callers_args :
       IF GCD(a.n, a.d) = 0
       THEN Raise(c, "rose", a, "ZeroDivisionError")
       ELSE IF a.num_points < 0
       THEN Raise(c, "rose", a, "ValueError")
       ELSE EnterLoop(c, "rose", a, 0, RoseTMax(a.n, a.d))

\* line 332
generate_custom_parametric(c, callers_args) ==
    /\ pc[c] = "idle"
    /\ \E a \in callers_args :
       IF a.num_points < 0
       THEN Raise(c, "custom", a, "ValueError")
       ELSE /\ pc' = [pc EXCEPT ![c] = "first_pass"]
            /\ family' = [family EXCEPT ![c] = "custom"]
            /\ args' = [args EXCEPT ![c] = a]
            /\ t_values' = [t_values EXCEPT ![c] =
                               linspace(a.t_start, a.t_end, a.num_points)]
            /\ cartesian_coords' = [cartesian_coords EXCEPT ![c] = <<>>]
            /\ coordinates' = [coordinates EXCEPT ![c] = <<>>]
            /\ raw_thetas' = [raw_thetas EXCEPT ![c] = <<>>]
            /\ max_r' = [max_r EXCEPT ![c] = UNIT]
            /\ UNCHANGED <<num_rotations, t_max, prev_theta, error>>

\* lines 336-339: one iteration of the first pass; x_func(t), y_func(t)
\* are the caller's functions, their values are inputs
first_pass(c, func_values) ==
    /\ pc[c] = "first_pass"
    /\ Len(cartesian_coords[c]) < Len(t_values[c])
    /\ \E xy \in func_values :
          cartesian_coords' = [cartesian_coords EXCEPT ![c] = Append(@, xy)]
    /\ UNCHANGED <<pc, family, args, num_rotations, t_max, t_values, max_r,
                   prev_theta, raw_thetas, coordinates, error>>

RECURSIVE MaxRadius(_)
MaxRadius(xys) ==
    IF Len(xys) = 1
    THEN Sqrt(xys[1][1] * xys[1][1] + xys[1][2] * xys[1][2])
    ELSE Max(Sqrt(xys[1][1] * xys[1][1] + xys[1][2] * xys[1][2]),
             MaxRadius(Tail(xys)))

\* max_r without the substitution of 1.0 for 0
AutoScaleMaxR_no_substitute(xys) == MaxRadius(xys)

\* max_r of lines 342-346 for a non-empty first pass
AutoScaleMaxR(xys) ==
    IF MaxRadius(xys) = 0 THEN UNIT ELSE MaxRadius(xys)

\* lines 342-350: max_r, then the locals of the second pass
auto_scale(c) ==
    /\ pc[c] = "first_pass"
    /\ Len(cartesian_coords[c]) = Len(t_values[c])
    /\ IF args[c].auto_scale /\ cartesian_coords[c] = <<>>
       THEN \* max() of an empty sequence
            /\ pc' = [pc EXCEPT ![c] = "raised"]
            /\ error' = [error EXCEPT ![c] = "ValueError"]
            /\ UNCHANGED <<max_r, prev_theta>>
       ELSE /\ pc' = [pc EXCEPT ![c] = "loop"]
            /\ max_r' = [max_r EXCEPT ![c] =
                            IF args[c].auto_scale
                            THEN AutoScaleMaxR(cartesian_coords[c])
                            ELSE UNIT]
            /\ prev_theta' = [prev_theta EXCEPT ![c] =
                                 InitialPrevTheta]
            /\ UNCHANGED error
    /\ UNCHANGED <<family, args, num_rotations, t_max, t_values,
                   cartesian_coords, raw_thetas, coordinates>>

\* the Cartesian point of a sample: the family's equations at t, or the
\* point xy of the first pass of the custom family
FamilyXY(fam, a, t, xy) ==
    CASE fam = "hypotrochoid" -> HypoXY(a, t)
      [] fam = "epitrochoid"  -> EpiXY(a, t)
      [] fam = "lissajous"    -> LissajousXY(a, t)
      [] OTHER                -> xy

\* the Cartesian point of sample i of call c
SampleXY(c, i) ==
    FamilyXY(family[c], args[c], t_values[c][i],
             IF family[c] = "custom" THEN cartesian_coords[c][i] ELSE <<0, 0>>)

\* one iteration of the sampling loop of a Cartesian family:
\* polar conversion, unwrapping, normalization, append
loop_body(c) ==
    /\ pc[c] = "loop"
    /\ family[c] \in CartesianFamilies
    /\ Len(coordinates[c]) < Len(t_values[c])
    /\ LET xy == SampleXY(c, Len(coordinates[c]) + 1)
           rho == Sqrt(xy[1] * xy[1] + xy[2] * xy[2])
           raw == Atan2(xy[2], xy[1])
           theta == Unwrap(raw, PrevThetaOf(c))
           maxp == MaxPossibleRho(family[c], args[c], max_r[c])
       IN  IF maxp = 0
           THEN \* rho / max_possible_rho
                /\ pc' = [pc EXCEPT ![c] = "raised"]
                /\ error' = [error EXCEPT ![c] = "ZeroDivisionError"]
                /\ coordinates' = [coordinates EXCEPT ![c] = <<>>]
                /\ raw_thetas' = [raw_thetas EXCEPT ![c] = <<>>]
                /\ prev_theta' = [prev_theta EXCEPT ![c] = theta]
           ELSE /\ prev_theta' = [prev_theta EXCEPT ![c] = theta]
                /\ raw_thetas' = [raw_thetas EXCEPT ![c] = Append(@, raw)]
                /\ coordinates' = [coordinates EXCEPT ![c] =
                      Append(@, <<theta, rho_normalized(rho, maxp,
                                     args[c].scale, args[c].center_offset)>>)]
                /\ UNCHANGED <<pc, error>>
    /\ UNCHANGED <<family, args, num_rotations, t_max, t_values,
                   cartesian_coords, max_r>>

\* lines 231-240: one iteration of the loop of generate_rose
rose_body(c) ==
    /\ pc[c] = "loop"
    /\ family[c] = "rose"
    /\ Len(coordinates[c]) < Len(t_values[c])
    /\ LET t == t_values[c][Len(coordinates[c]) + 1]
       IN  IF args[c].d = 0
           THEN \* k = n / d
                /\ pc' = [pc EXCEPT ![c] = "raised"]
                /\ error' = [error EXCEPT ![c] = "ZeroDivisionError"]
                /\ coordinates' = [coordinates EXCEPT ![c] = <<>>]
           ELSE /\ coordinates' = [coordinates EXCEPT ![c] =
                      Append(@, <<t, normalize_rho(
                          FDiv(RoseRho(args[c], t) * args[c].scale, UNIT)
                          + args[c].center_offset, MAX_RHO)>>)]
                /\ UNCHANGED <<pc, error>>
    /\ UNCHANGED <<family, args, num_rotations, t_max, t_values,
                   cartesian_coords, max_r, prev_theta, raw_thetas>>

\* return coordinates
return(c) ==
    /\ pc[c] = "loop"
    /\ Len(coordinates[c]) = Len(t_values[c])
    /\ pc' = [pc EXCEPT ![c] = "returned"]
    /\ UNCHANGED <<family, args, num_rotations, t_max, t_values,
                   cartesian_coords, max_r, prev_theta, raw_thetas,
                   coordinates, error>>

\* the caller takes the result or the exception; the generator instance is
\* free for its next call
next_call(c) ==
    /\ pc[c] \in {"returned", "raised"}
    /\ pc' = [pc EXCEPT ![c] = "idle"]
    /\ family' = [family EXCEPT ![c] = "none"]
    /\ args' = [args EXCEPT ![c] = NoArgs]
    /\ error' = [error EXCEPT ![c] = "none"]
    /\ coordinates' = [coordinates EXCEPT ![c] = <<>>]
    /\ raw_thetas' = [raw_thetas EXCEPT ![c] = <<>>]
    /\ t_values' = [t_values EXCEPT ![c] = <<>>]
    /\ cartesian_coords' = [cartesian_coords EXCEPT ![c] = <<>>]
    /\ num_rotations' = [num_rotations EXCEPT ![c] = 0]
    /\ t_max' = [t_max EXCEPT ![c] = 0]
    /\ max_r' = [max_r EXCEPT ![c] = UNIT]
    /\ prev_theta' = [prev_theta EXCEPT ![c] = 0]

\* ----------------------------------------------------------- the callers
PointVals == -1..MaxPoints
RadiusVals == 0..(3 * TicksPerMilli)
DistVals == {-TicksPerMilli, 0, TicksPerMilli}
FreqVals == {0, 1} \cup {k * RATIONALIZE * TicksPerMilli : k \in 1..3}
ScaleVals == {UNIT \div 2, UNIT}
OffsetVals == {-(UNIT \div 2), 0, UNIT}

TrochoidArgs ==
    [R : RadiusVals, r : RadiusVals, d : DistVals, num_points : PointVals,
     scale : ScaleVals, center_offset : OffsetVals]

RoseArgs ==
    [n : 0..5, d : 0..3, num_points : PointVals,
     scale : ScaleVals, center_offset : OffsetVals]

LissajousArgs ==
    [a : FreqVals, b : FreqVals, delta : {0, HalfPi}, num_points : PointVals,
     scale : ScaleVals, center_offset : OffsetVals]

CustomArgs ==
    [t_start : {0}, t_end : {TwoPi}, num_points : -1..MaxCustomPoints,
     scale : {UNIT}, center_offset : OffsetVals, auto_scale : BOOLEAN]

\* values (x_func(t), y_func(t)) of the caller's functions
CustomPoints ==
    {<<0, 0>>, <<UNIT, UNIT>>, <<-UNIT, UNIT>>, <<-UNIT, -UNIT>>,
     <<UNIT, -UNIT>>, <<-2 * UNIT, 0>>}

\* one caller, one generation call at a time
MainCall == CHOOSE c \in Calls : \A o \in Calls : c <= o

Next ==
    \/ generate_hypotrochoid(MainCall, TrochoidArgs)
    \/ generate_epitrochoid(MainCall, TrochoidArgs)
    \/ generate_rose(MainCall, RoseArgs)
    \/ generate_lissajous(MainCall, LissajousArgs)
    \/ generate_custom_parametric(MainCall, CustomArgs)
    \/ first_pass(MainCall, CustomPoints)
    \/ auto_scale(MainCall)
    \/ loop_body(MainCall)
    \/ rose_body(MainCall)
    \/ return(MainCall)
    \/ next_call(MainCall)

Spec == Init /\ [][Next]_vars

\* callers in parallel: every call of Calls interleaves with the others,
\* sample by sample
ParTrochoidArgs ==
    {a \in TrochoidArgs : /\ a.R = 3 * TicksPerMilli
                          /\ a.r \in {TicksPerMilli, 2 * TicksPerMilli}
                          /\ a.d = TicksPerMilli
                          /\ a.num_points = 3
                          /\ a.scale = UNIT /\ a.center_offset = 0}

ParRoseArgs ==
    {a \in RoseArgs : /\ a.n = 2 /\ a.d = 1 /\ a.num_points = 3
                      /\ a.scale = UNIT /\ a.center_offset = 0}

ParLissajousArgs ==
    {a \in LissajousArgs : /\ a.a = RATIONALIZE * TicksPerMilli
                           /\ a.b = 2 * RATIONALIZE * TicksPerMilli
                           /\ a.num_points = 3
                           /\ a.scale = UNIT /\ a.center_offset = 0}

ParCustomArgs ==
    {a \in CustomArgs : /\ a.num_points = 2 /\ a.center_offset = 0
                        /\ a.auto_scale}

ParCustomPoints == {<<UNIT, UNIT>>, <<-UNIT, UNIT>>, <<-UNIT, -UNIT>>}

NextPar ==
    \E c \in Calls :
        \/ generate_hypotrochoid(c, ParTrochoidArgs)
        \/ generate_epitrochoid(c, ParTrochoidArgs)
        \/ generate_rose(c, ParRoseArgs)
        \/ generate_lissajous(c, ParLissajousArgs)
        \/ generate_custom_parametric(c, ParCustomArgs)
        \/ first_pass(c, ParCustomPoints)
        \/ auto_scale(c)
        \/ loop_body(c)
        \/ rose_body(c)
        \/ return(c)
        \/ next_call(c)

SpecPar == Init /\ [][NextPar]_vars

\* ------------------------------------------------------------ properties
Theta(c, i) == coordinates[c][i][1]
Rho(c, i) == coordinates[c][i][2]
Entered(c) == pc[c] \in {"loop", "returned"}

\* C1 (continuity): in every sequence built by the hypotrochoid,
\* epitrochoid, Lissajous and custom generators, consecutive emitted thetas
\* differ by at most pi, and the first emitted theta is within pi of the
\* initial prev_theta = 0.
Continuity ==
    \A c \in Calls :
        family[c] \in CartesianFamilies =>
            \A i \in 1..Len(coordinates[c]) :
                Abs(Theta(c, i) - (IF i = 1 THEN 0 ELSE Theta(c, i - 1))) <= PI

\* a returned sequence whose raw atan2 angles jump by more than pi between
\* two consecutive samples
ContinuityWitness ==
    \E c \in Calls :
        /\ pc[c] = "returned"
        /\ family[c] \in CartesianFamilies
        /\ \E i \in 2..Len(coordinates[c]) :
              Abs(raw_thetas[c][i] - raw_thetas[c][i - 1]) > PI

\* C2 (bounded output): every coordinate emitted by any of the five
\* generators has 0 <= rho <= 1, whatever the raw radius, scale and
\* center_offset.
BoundedOutput ==
    \A c \in Calls :
        \A i \in 1..Len(coordinates[c]) : 0 <= Rho(c, i) /\ Rho(c, i) <= MAX_RHO

\* a returned sequence of a call whose scale and center_offset push the
\* radius above 1: it saturates at the bound
BoundedOutputWitness ==
    \E c \in Calls :
        /\ pc[c] = "returned"
        /\ args[c].center_offset = UNIT
        /\ args[c].num_points >= 2
        /\ \A i \in 1..Len(coordinates[c]) : Rho(c, i) = MAX_RHO

\* C10 (direction preservation): every emitted theta of the hypotrochoid,
\* epitrochoid, Lissajous and custom generators is the raw atan2 angle plus
\* a whole number of turns, and prev_theta holds the last emitted theta.
DirectionPreserved ==
    \A c \in Calls :
        (family[c] \in CartesianFamilies /\ Entered(c)) =>
            /\ Len(raw_thetas[c]) = Len(coordinates[c])
            /\ \A i \in 1..Len(coordinates[c]) :
                  (Theta(c, i) - raw_thetas[c][i]) % TwoPi = 0
            /\ coordinates[c] # <<>> =>
                  prev_theta[c] = Theta(c, Len(coordinates[c]))

\* a returned sequence in which a sample was moved by two turns or more
\* (an unwrapping loop ran twice)
DirectionPreservedWitness ==
    \E c \in Calls :
        /\ pc[c] = "returned"
        /\ family[c] \in CartesianFamilies
        /\ \E i \in 1..Len(coordinates[c]) :
              Abs(Theta(c, i) - raw_thetas[c][i]) >= 2 * TwoPi

Trochoids == {"hypotrochoid", "epitrochoid"}
RatioFamilies == {"hypotrochoid", "epitrochoid", "lissajous"}

\* the two inputs of the period computation of a ratio family
RatioA(c) == IF family[c] = "lissajous" THEN args[c].a ELSE args[c].R
RatioB(c) == IF family[c] = "lissajous" THEN args[c].b ELSE args[c].r

\* a value in ticks that is an exact multiple of 0.001
ExactMilli(v) == v % TicksPerMilli = 0

\* C3 (closure): for generate_hypotrochoid and generate_epitrochoid with
\* positive R and r that are exact multiples of 0.001, the first and the
\* last emitted point coincide (same rho and, off the origin, thetas a whole
\* number of turns apart).
Closure ==
    \A c \in Calls :
        (/\ pc[c] = "returned"
         /\ family[c] \in Trochoids
         /\ args[c].R > 0 /\ ExactMilli(args[c].R)
         /\ args[c].r > 0 /\ ExactMilli(args[c].r)
         /\ coordinates[c] # <<>>) =>
            /\ Rho(c, 1) = Rho(c, Len(coordinates[c]))
            /\ Rho(c, 1) > 0 =>
                  (Theta(c, Len(coordinates[c])) - Theta(c, 1)) % TwoPi = 0

\* C4 (period formula) as claimed: with A and B the inputs rationalized as
\* round(value * 1000), t_max = 2 * pi * lcm(A, B) / B for the hypotrochoid,
\* the epitrochoid and the Lissajous figure, lcm(A, B) / B being the integer
\* number of rotations.
PeriodFormulaRounded ==
    \A c \in Calls :
        (family[c] \in RatioFamilies /\ Entered(c)) =>
            LET A == Round1000(RatioA(c))
                B == Round1000(RatioB(c))
            IN  (A > 0 /\ B > 0) =>
                    /\ LcmOf(A, B) % B = 0
                    /\ t_max[c] = TwoPi * (LcmOf(A, B) \div B)
                    /\ family[c] \in Trochoids =>
                          num_rotations[c] = UNIT * (LcmOf(A, B) \div B)

\* C4 amended: A = int(R * 1000) and B = int(r * 1000) are truncated; for
\* the trochoids num_rotations * (r * 1000) = lcm(A, B) and
\* t_max = 2 * pi * num_rotations, so num_rotations is the integer
\* lcm(A, B) / B when r is an exact multiple of 0.001; for the Lissajous
\* figure the range is 2 * pi * lcm(A, B) / 1000.
PeriodFormula ==
    \A c \in Calls :
        (family[c] \in RatioFamilies /\ Entered(c)) =>
            LET A == Int1000(RatioA(c))
                B == Int1000(RatioB(c))
                lcm == (A * B) \div GCD(A, B)
            IN  /\ (A > 0 /\ B > 0) => (lcm % A = 0 /\ lcm % B = 0)
                /\ family[c] \in Trochoids =>
                      /\ num_rotations[c]
                            = (lcm * UNIT * TicksPerMilli) \div args[c].r
                      /\ t_max[c] = (TwoPi * num_rotations[c]) \div UNIT
                      /\ (B > 0 /\ ExactMilli(args[c].r)) =>
                            /\ num_rotations[c] = UNIT * (lcm \div B)
                            /\ t_max[c] = TwoPi * (lcm \div B)
                /\ family[c] = "lissajous" =>
                      t_max[c] = (TwoPi * lcm) \div RATIONALIZE

\* a trochoid whose r is not a multiple of 0.001 and is truncated, not
\* rounded, to a different integer, and whose sampling has started
PeriodFormulaWitness ==
    \E c \in Calls :
        /\ pc[c] = "returned"
        /\ family[c] \in Trochoids
        /\ args[c].num_points >= 2
        /\ Int1000(args[c].R) > 1
        /\ Int1000(args[c].r) > 0
        /\ Round1000(args[c].r) # Int1000(args[c].r)
        /\ t_max[c] > TwoPi

\* C5 (rose period): generate_rose(n, d) samples [0, t_max] with
\* t_max = 2 * pi * d / gcd(n, d) when n or d is even and
\* t_max = pi * d / gcd(n, d) otherwise, with no rounding.
RosePeriod ==
    \A c \in Calls :
        (family[c] = "rose" /\ Entered(c)) =>
            /\ t_max[c] = (IF args[c].d % 2 = 0 \/ args[c].n % 2 = 0
                           THEN TwoPi ELSE PI)
                          * (args[c].d \div GCD(args[c].n, args[c].d))
            /\ t_values[c] # <<>> =>
                  /\ t_values[c][1] = 0
                  /\ Len(t_values[c]) > 1 =>
                        t_values[c][Len(t_values[c])] = t_max[c]

\* C6 (zero rationalization fails fast): a call of generate_hypotrochoid,
\* generate_epitrochoid or generate_lissajous one of whose rationalized
\* inputs is zero ends in InvalidParameter: it neither faults with a
\* division by zero nor samples or returns a sequence.
ZeroRationalizationFailsFast ==
    \A c \in Calls :
        (/\ family[c] \in RatioFamilies
         /\ Int1000(RatioA(c)) = 0 \/ Int1000(RatioB(c)) = 0) =>
            pc[c] = "raised" /\ error[c] = "InvalidParameter"

\* C7 (point-count validation): a call with num_points < 2 fails with
\* InvalidParameter and returns no sequence, that is, every returned
\* sequence has exactly num_points >= 2 coordinates.
PointCountValidated ==
    \A c \in Calls :
        pc[c] = "returned" =>
            /\ Len(coordinates[c]) = args[c].num_points
            /\ Len(coordinates[c]) >= 2

\* every sample of the first pass of call c is (0, 0)
AllZero(c) ==
    \A i \in 1..Len(cartesian_coords[c]) : cartesian_coords[c][i] = <<0, 0>>

\* C8 (degenerate custom curve): generate_custom_parametric with
\* auto_scale=True whose samples are all (0, 0) never faults with a
\* division by zero; with at least one sample it takes max_r = 1, completes
\* and every emitted rho is center_offset clamped to [0, 1].
DegenerateCustom ==
    \A c \in Calls :
        (/\ family[c] = "custom"
         /\ args[c].auto_scale
         /\ pc[c] \in {"loop", "returned", "raised"}
         /\ args[c].num_points >= 0
         /\ AllZero(c)) =>
            /\ error[c] # "ZeroDivisionError"
            /\ cartesian_coords[c] # <<>> =>
                  /\ pc[c] # "raised"
                  /\ max_r[c] = UNIT
                  /\ \A i \in 1..Len(coordinates[c]) :
                        Rho(c, i) = Max(0, Min(UNIT, args[c].center_offset))

\* a returned all-zero auto-scaled custom curve of two points or more whose
\* center_offset is out of range
DegenerateCustomWitness ==
    \E c \in Calls :
        /\ pc[c] = "returned"
        /\ family[c] = "custom"
        /\ args[c].auto_scale
        /\ AllZero(c)
        /\ Len(coordinates[c]) >= 2
        /\ args[c].center_offset < 0

\* the coordinates a Cartesian family emits for samples i..Len(tv) when run
\* on its own from prev_theta = prev
RECURSIVE AloneFrom(_, _, _, _, _, _, _)
AloneFrom(fam, a, tv, xys, maxr, i, prev) ==
    IF i > Len(tv) \/ MaxPossibleRho(fam, a, maxr) = 0 THEN <<>>
    ELSE LET xy == FamilyXY(fam, a, tv[i],
                            IF fam = "custom" THEN xys[i] ELSE <<0, 0>>)
             theta == Unwrap(Atan2(xy[2], xy[1]), prev)
             rho == rho_normalized(Sqrt(xy[1] * xy[1] + xy[2] * xy[2]),
                                   MaxPossibleRho(fam, a, maxr),
                                   a.scale, a.center_offset)
         IN  <<<<theta, rho>>>>
             \o AloneFrom(fam, a, tv, xys, maxr, i + 1, theta)

\* the sequence call c builds when it is the only call of the generator
Alone(c) ==
    IF family[c] = "rose"
    THEN [i \in 1..Len(t_values[c]) |->
            <<t_values[c][i],
              normalize_rho(FDiv(RoseRho(args[c], t_values[c][i])
                                 * args[c].scale, UNIT)
                            + args[c].center_offset, MAX_RHO)>>]
    ELSE AloneFrom(family[c], args[c], t_values[c], cartesian_coords[c],
                   max_r[c], 1, 0)

\* C9 (call independence and determinism): under any interleaving of the
\* generation calls on one generator, the coordinates a call has built are
\* those it builds when run alone, and two returned calls with the same
\* parameters hold the same sequence.
CallsIndependent ==
    /\ \A c \in Calls :
          Entered(c) =>
              coordinates[c] = SubSeq(Alone(c), 1, Len(coordinates[c]))
    /\ \A c1, c2 \in Calls :
          (/\ pc[c1] = "returned" /\ pc[c2] = "returned"
           /\ family[c1] = family[c2]
           /\ args[c1] = args[c2]
           /\ cartesian_coords[c1] = cartesian_coords[c2]) =>
              coordinates[c1] = coordinates[c2]

\* two calls in the middle of their sampling loops at once, each holding its
\* own non-zero prev_theta
CallsIndependentWitness ==
    /\ pc[1] = "loop" /\ pc[2] = "loop"
    /\ family[1] \in CartesianFamilies /\ family[2] \in CartesianFamilies
    /\ coordinates[1] # <<>> /\ Len(coordinates[1]) < Len(t_values[1])
    /\ coordinates[2] # <<>> /\ Len(coordinates[2]) < Len(t_values[2])
    /\ prev_theta[1] # 0 /\ prev_theta[2] # 0
    /\ prev_theta[1] # prev_theta[2]

=============================================================================
